---- MODULE Spec2Model ----
(***************************************************************************)
(* Model of the authentication core of servemax, internal/auth/auth.go:    *)
(* HashPassword / CheckPasswordHash (bcrypt) and MakeJWT / ValidateJWT     *)
(* (golang-jwt/v5, HS256).  The calls into bcrypt, jwt and uuid are        *)
(* modelled by what those libraries compute on the values auth.go hands    *)
(* them: the MAC and the hash are ideal (equal outputs only for equal      *)
(* effective inputs), and the effective input is computed as the library   *)
(* computes it (HMAC block key, bcrypt key stream, NumericDate truncation).*)
(* Time is counted in ticks, TicksPerSecond ticks to the second.           *)
(***************************************************************************)
EXTENDS Integers, Sequences, FiniteSets, TLC

\* ------------------------------------------------------------------ bounds
\* resolution of the clock: ticks per second (a duration of 1 tick is sub-second)
TicksPerSecond == 2
\* the clock runs from 0 to MaxTime ticks
MaxTime == 3
\* ttl (expiresIn) ranges over -MaxTTL..MaxTTL ticks
MaxTTL == 2
\* signing secrets are byte strings of length 0..MaxSecretLen
MaxSecretLen == 1
\* short passwords are byte strings of length 0..MaxPasswordLen
MaxPasswordLen == 1
\* bcrypt salts are drawn from 1..NumSalts
NumSalts == 2
\* a UUID is UUIDBytes bytes long (16 in the program, scaled)
UUIDBytes == 1

\* byte values the inputs are built from (0 is the NUL byte)
Bytes == {0, 1}

\* ------------------------------------------------------- library constants
\* bcrypt.DefaultCost
DefaultCost == 10
\* bcrypt uses at most 72 bytes of key: 18 words of the Blowfish P-array
BcryptMaxLen == 72
\* block size of SHA-256, to which HMAC pads its key
HmacBlockSize == 64

\* ------------------------------------------------------------------ errors
ErrNil == "nil"
ErrPasswordTooLong == "bcrypt: password length exceeds 72 bytes"
ErrHashTooShort == "crypto/bcrypt: hashedSecret too short to be a bcrypted password"
ErrMismatchedHashAndPassword == "crypto/bcrypt: hashedPassword is not the hash of the given password"
ErrUnexpectedSigningMethod == "token is unverifiable: error while executing keyfunc: unexpected signing method"
ErrTokenSignatureInvalid == "token signature is invalid: signature is invalid"
ErrTokenExpired == "token has invalid claims: token is expired"
ErrInvalidToken == "invalid token"
ErrInvalidUserID == "invalid user ID in token"

\* ------------------------------------------------------------ byte strings
\* all byte strings over Bytes of length 0..n
ByteStrings(n) == UNION {[1..k -> Bytes] : k \in 0..n}

\* the byte b repeated n times
Rep(b, n) == [i \in 1..n |-> b]

\* the empty Go string
EmptyString == <<>>

\* ------------------------------------------------------------------ bcrypt
\* the bytes of the key bcrypt's key schedule reads: the password followed by
\* a NUL byte, repeated cyclically to fill the 18 words of the P-array
KeyStream(password) ==
    LET ckey == Append(password, 0)
        n == Len(ckey)
    IN  [i \in 1..BcryptMaxLen |-> ckey[((i - 1) % n) + 1]]

\* bcrypt.GenerateFromPassword(password, cost) with the random salt drawn as
\* `salt`: the hash string "$2a$<cost>$<salt><digest>", the digest an ideal
\* function of (cost, salt, key stream)
GenerateFromPassword(password, cost, salt) ==
    IF Len(password) > BcryptMaxLen
    THEN [hash |-> EmptyString, err |-> ErrPasswordTooLong]
    ELSE [hash |-> <<"$2a$", cost, salt, KeyStream(password)>>, err |-> ErrNil]

\* HashPassword(password) (string, error)
HashPassword(password, salt) ==
    LET r == GenerateFromPassword(password, DefaultCost, salt)
    IN  IF r.err # ErrNil
        THEN [str |-> EmptyString, err |-> r.err]
        ELSE [str |-> r.hash, err |-> ErrNil]

\* bcrypt.CompareHashAndPassword(hash, password): the digest is recomputed
\* from the hash's cost and salt and compared with the hash's digest
CompareHashAndPassword(hash, password) ==
    IF Len(hash) < 4
    THEN ErrHashTooShort
    ELSE LET otherHash == <<hash[1], hash[2], hash[3], KeyStream(password)>>
         IN  IF otherHash = hash
             THEN ErrNil
             ELSE ErrMismatchedHashAndPassword

\* CheckPasswordHash(hash, password) error
CheckPasswordHash(hash, password) == CompareHashAndPassword(hash, password)

\* -------------------------------------------------------------------- uuid
HexDigits == <<"0", "1", "2", "3", "4", "5", "6", "7",
               "8", "9", "a", "b", "c", "d", "e", "f">>
UpperHexDigits == <<"0", "1", "2", "3", "4", "5", "6", "7",
                    "8", "9", "A", "B", "C", "D", "E", "F">>

\* uuid.Nil
NilUUID == Rep(0, UUIDBytes)

\* uuid.UUID.String(): two lower-case hex digits per byte (the hyphens of the
\* 36-character form are left out of the scaled form)
UUIDString(u) ==
    [i \in 1..(2 * Len(u)) |->
        LET b == u[(i + 1) \div 2]
        IN  IF i % 2 = 1 THEN HexDigits[(b \div 16) + 1] ELSE HexDigits[(b % 16) + 1]]

\* value of a hex digit of either case, -1 for any other character
HexValue(c) ==
    IF \E k \in 1..16 : HexDigits[k] = c
    THEN (CHOOSE k \in 1..16 : HexDigits[k] = c) - 1
    ELSE IF \E k \in 1..16 : UpperHexDigits[k] = c
         THEN (CHOOSE k \in 1..16 : UpperHexDigits[k] = c) - 1
         ELSE -1

\* uuid.Parse(s) (UUID, error)
UUIDParse(s) ==
    IF Len(s) # 2 * UUIDBytes
    THEN [id |-> NilUUID, err |-> "invalid UUID length"]
    ELSE IF \E i \in 1..Len(s) : HexValue(s[i]) = -1
         THEN [id |-> NilUUID, err |-> "invalid UUID format"]
         ELSE [id |-> [j \in 1..UUIDBytes |->
                          16 * HexValue(s[2 * j - 1]) + HexValue(s[2 * j])],
               err |-> ErrNil]

\* --------------------------------------------------------------------- jwt
\* signing methods registered by the jwt library that the model draws from
HMACMethods == {"HS256"}
OtherMethods == {"RS256", "none"}

\* the key HMAC-SHA256 actually uses: the key zero-padded to the block (a key
\* longer than the block is first replaced by its digest; the secrets drawn
\* here are shorter than the block)
HmacKey(secret) ==
    [i \in 1..HmacBlockSize |-> IF i <= Len(secret) THEN secret[i] ELSE 0]

\* SigningMethodHMAC.Sign(signingString, key): an ideal MAC of the effective
\* key and the signing string (header and claims segments)
HmacSign(header, claims, secret) == [key |-> HmacKey(secret), hdr |-> header, clm |-> claims]

\* faulty variant: the signature is compared without the key
HmacVerifyIgnoresKey(header, claims, sig, secret) == sig.hdr = header /\ sig.clm = claims

\* SigningMethodHMAC.Verify(signingString, sig, key)
HmacVerify(header, claims, sig, secret) == sig = HmacSign(header, claims, secret)

\* faulty variant: the time is rounded up to the next whole second
NumericDateRoundsUp(t) == t + ((TicksPerSecond - (t % TicksPerSecond)) % TicksPerSecond)

\* jwt.NewNumericDate(t): t.Truncate(TimePrecision), TimePrecision one second
NewNumericDate(t) == t - (t % TicksPerSecond)

\* jwt.NewWithClaims(jwt.SigningMethodHS256, claims): the token's header
HS256Header == [alg |-> "HS256", typ |-> "JWT"]

\* token.SignedString(key): the compact form, header, claims and signature
SignedString(header, claims, secret) ==
    [str |-> <<header, claims, HmacSign(header, claims, secret)>>, err |-> ErrNil]

\* MakeJWT(userID, tokenSecret, expiresIn) (string, error); t1 and t2 are the
\* values of the two time.Now() calls, in this order
MakeJWT(userID, tokenSecret, expiresIn, t1, t2) ==
    LET claims == [iss |-> "chirpy",
                   iat |-> NewNumericDate(t1),
                   exp |-> NewNumericDate(t2 + expiresIn),
                   sub |-> UUIDString(userID)]
        signed == SignedString(HS256Header, claims, tokenSecret)
    IN  IF signed.err # ErrNil
        THEN [str |-> EmptyString, err |-> signed.err]
        ELSE [str |-> signed.str, err |-> ErrNil]

\* faulty variant: the Keyfunc hands out the secret whatever the signing method is
KeyFuncAnyMethod(header, tokenSecret) == [key |-> tokenSecret, err |-> ErrNil]

\* the Keyfunc ValidateJWT passes to the parser
KeyFunc(header, tokenSecret) ==
    IF header.alg \notin HMACMethods
    THEN [key |-> EmptyString, err |-> ErrUnexpectedSigningMethod]
    ELSE [key |-> tokenSecret, err |-> ErrNil]

\* faulty variant: expiry is accepted at the very instant of expiry
VerifyExpiresAtInclusive(claims, t) == t <= claims.exp

\* Validator.verifyExpiresAt: now.Before(exp)
VerifyExpiresAt(claims, t) == t < claims.exp

\* jwt.ParseWithClaims(tokenString, &RegisteredClaims{}, keyFunc) at time t:
\* Keyfunc, then signature, then claims validation.  keyUsed tells whether
\* the secret reached the signature verification.
ParseWithClaims(tokenString, tokenSecret, t) ==
    IF Len(tokenString) # 3
    THEN [valid |-> FALSE, keyUsed |-> FALSE,
          err |-> "token is malformed: token contains an invalid number of segments"]
    ELSE LET header == tokenString[1]
             claims == tokenString[2]
             sig == tokenString[3]
             got == KeyFunc(header, tokenSecret)
         IN  IF got.err # ErrNil
             THEN [valid |-> FALSE, keyUsed |-> FALSE, err |-> got.err]
             ELSE IF ~HmacVerify(header, claims, sig, got.key)
                  THEN [valid |-> FALSE, keyUsed |-> TRUE, err |-> ErrTokenSignatureInvalid]
                  ELSE IF ~VerifyExpiresAt(claims, t)
                       THEN [valid |-> FALSE, keyUsed |-> TRUE, err |-> ErrTokenExpired]
                       ELSE [valid |-> TRUE, keyUsed |-> TRUE, err |-> ErrNil]

\* faulty variant: the subject is parsed and returned before the parser's verdict is read
ValidateJWTSubjectFirst(tokenString, tokenSecret, t) ==
    LET parsed == ParseWithClaims(tokenString, tokenSecret, t)
        sub == IF Len(tokenString) = 3 THEN tokenString[2].sub ELSE EmptyString
        user == UUIDParse(sub)
    IN  IF user.err # ErrNil
        THEN [id |-> NilUUID, err |-> ErrInvalidUserID, keyUsed |-> parsed.keyUsed]
        ELSE [id |-> user.id, err |-> parsed.err, keyUsed |-> parsed.keyUsed]

\* faulty variant: the subject of a rejected token is returned beside the error
ValidateJWTKeepsID(tokenString, tokenSecret, t) ==
    LET parsed == ParseWithClaims(tokenString, tokenSecret, t)
        sub == IF Len(tokenString) = 3 THEN tokenString[2].sub ELSE EmptyString
        user == UUIDParse(sub)
    IN  IF user.err # ErrNil
        THEN [id |-> NilUUID,
              err |-> IF parsed.err # ErrNil THEN parsed.err ELSE ErrInvalidUserID,
              keyUsed |-> parsed.keyUsed]
        ELSE [id |-> user.id, err |-> parsed.err, keyUsed |-> parsed.keyUsed]

\* ValidateJWT(tokenString, tokenSecret) (uuid.UUID, error) at time t
ValidateJWT(tokenString, tokenSecret, t) ==
    LET parsed == ParseWithClaims(tokenString, tokenSecret, t)
    IN  IF parsed.err # ErrNil
        THEN [id |-> NilUUID, err |-> parsed.err, keyUsed |-> parsed.keyUsed]
        ELSE IF ~parsed.valid
             THEN [id |-> NilUUID, err |-> ErrInvalidToken, keyUsed |-> parsed.keyUsed]
             ELSE LET user == UUIDParse(tokenString[2].sub)
                  IN  IF user.err # ErrNil
                      THEN [id |-> NilUUID, err |-> ErrInvalidUserID, keyUsed |-> parsed.keyUsed]
                      ELSE [id |-> user.id, err |-> ErrNil, keyUsed |-> parsed.keyUsed]

\* ------------------------------------------------------------------ inputs
UserIDs == {Rep(b, UUIDBytes) : b \in {0, 171}}
Secrets == ByteStrings(MaxSecretLen)
TTLs == (0 - MaxTTL)..MaxTTL
Salts == 1..NumSalts
\* short passwords, and passwords at and just past bcrypt's 72 bytes
Passwords == ByteStrings(MaxPasswordLen)
             \cup {Rep(1, n) : n \in BcryptMaxLen..(BcryptMaxLen + 1)}

\* subject strings of presented tokens: canonical, upper case, not a UUID
Subjects == {UUIDString(u) : u \in UserIDs}
            \cup {Rep("A", 2 * UUIDBytes), Rep("z", 2 * UUIDBytes)}
\* expiry claims of presented tokens
PresentedExp == {0, TicksPerSecond, MaxTime}

\* a signature that is the MAC of nothing
UnkeyedSignature(header, claims) == [key |-> EmptyString, hdr |-> header, clm |-> claims]

\* tokens a client may present that MakeJWT did not mint: any registered
\* method, any claims, signed under any of the secrets or not at all
PresentedTokens ==
    UNION {
        LET header == [alg |-> a, typ |-> "JWT"]
        IN  {<<header, c, sg>> :
                sg \in {HmacSign(header, c, k) : k \in Secrets}
                       \cup {UnkeyedSignature(header, c)}}
        : a \in HMACMethods \cup OtherMethods,
          c \in [iss : {"chirpy"}, iat : {0}, exp : PresentedExp, sub : Subjects] }

\* ------------------------------------------------------------------- state
\* The package keeps no state.  The state here is the environment of its
\* calls: the clock, the one token a client holds at a time (obtained when it
\* holds none, validated any number of times as the clock advances, discarded
\* at will), and the last call's inputs and results.  The credential calls
\* are made while no token is held, as registration and login come before a
\* token is issued; their results depend on their arguments alone.
VARIABLES
    now,              \* the wall clock, time.Now(), in ticks
    tok,              \* the token string the client holds
    issued,           \* the MakeJWT call that minted tok, if one did
    rejectedExpired,  \* tok has been rejected as expired by some ValidateJWT call
    res               \* the last call: its operation, inputs and results

\* The request-handling layer of main.go: its configuration, the users table
\* of its database, and the last HTTP exchange.
VARIABLES
    platform,         \* cfg.platform, read from PLATFORM at start-up
    users,            \* the rows of table users: email and hashed_password
    registered,       \* the registrations answered 201 whose rows have not been deleted
    failedLogins,     \* the answers given so far to well-formed logins that failed a check
    resp              \* the last request and its response

hvars == <<platform, users, registered, failedLogins, resp>>
vars == <<now, tok, issued, rejectedExpired, res, platform, users, registered, failedLogins, resp>>

NotIssued == [made |-> FALSE, userID |-> NilUUID, secret |-> EmptyString, ttl |-> 0, t1 |-> 0]

NoRes == [op |-> "none", secret |-> EmptyString, password |-> EmptyString,
          hash |-> EmptyString, at |-> 0, str |-> EmptyString, id |-> NilUUID,
          err |-> ErrNil, keyUsed |-> FALSE]

NoResp == [handler |-> "none", method |-> "", jsonOk |-> FALSE, email |-> "",
           password |-> EmptyString, status |-> 0, ctype |-> "", body |-> <<"", "">>]

\* the server has started: no request served, table users empty
HandlerStart ==
    /\ users = {}
    /\ registered = {}
    /\ failedLogins = {}
    /\ resp = NoResp

Init ==
    /\ now = 0
    /\ tok = EmptyString
    /\ issued = NotIssued
    /\ rejectedExpired = FALSE
    /\ res = NoRes
    /\ platform = "dev"
    /\ HandlerStart

\* the clock advances
Tick ==
    /\ now < MaxTime
    /\ now' = now + 1
    /\ UNCHANGED <<tok, issued, rejectedExpired, res>>
    /\ UNCHANGED hvars

\* a call of MakeJWT by a client that holds no token; the clock may advance
\* by d between the two time.Now() calls
MakeJWTCall ==
    \E userID \in UserIDs, tokenSecret \in Secrets, expiresIn \in TTLs, d \in 0..1 :
        /\ tok = EmptyString
        /\ now + d <= MaxTime
        /\ LET r == MakeJWT(userID, tokenSecret, expiresIn, now, now + d)
           IN  /\ tok' = r.str
               /\ res' = [NoRes EXCEPT !.op = "MakeJWT", !.secret = tokenSecret,
                                       !.at = now, !.str = r.str, !.err = r.err]
        /\ issued' = [made |-> TRUE, userID |-> userID, secret |-> tokenSecret,
                      ttl |-> expiresIn, t1 |-> now]
        /\ now' = now + d
        /\ rejectedExpired' = FALSE
        /\ UNCHANGED hvars

\* a client that holds no token comes to hold one MakeJWT did not mint
PresentToken ==
    \E t \in PresentedTokens :
        /\ tok = EmptyString
        /\ tok' = t
        /\ issued' = NotIssued
        /\ rejectedExpired' = FALSE
        /\ res' = [NoRes EXCEPT !.op = "PresentToken"]
        /\ UNCHANGED now
        /\ UNCHANGED hvars

\* the client discards its token
DiscardToken ==
    /\ tok # EmptyString
    /\ tok' = EmptyString
    /\ issued' = NotIssued
    /\ rejectedExpired' = FALSE
    /\ res' = NoRes
    /\ UNCHANGED now
    /\ UNCHANGED hvars

\* a call of ValidateJWT on the held token
ValidateJWTCall ==
    \E tokenSecret \in Secrets :
        LET r == ValidateJWT(tok, tokenSecret, now)
        IN  /\ res' = [NoRes EXCEPT !.op = "ValidateJWT", !.secret = tokenSecret,
                                    !.at = now, !.id = r.id, !.err = r.err,
                                    !.keyUsed = r.keyUsed]
            /\ rejectedExpired' = (rejectedExpired \/ r.err = ErrTokenExpired)
            /\ UNCHANGED <<now, tok, issued>>
            /\ UNCHANGED hvars

\* a call of HashPassword (registration: the client holds no token yet)
HashPasswordCall ==
    \E password \in Passwords, salt \in Salts :
        LET r == HashPassword(password, salt)
        IN  /\ tok = EmptyString
            /\ res' = [NoRes EXCEPT !.op = "HashPassword", !.password = password,
                                    !.str = r.str, !.err = r.err]
            /\ UNCHANGED <<now, tok, issued, rejectedExpired>>
            /\ UNCHANGED hvars

\* hash strings HashPassword returns
HashStrings == {HashPassword(p, s).str : p \in Passwords, s \in Salts}

\* a call of CheckPasswordHash on a hash string HashPassword returned (login:
\* the client holds no token yet)
CheckPasswordHashCall ==
    \E hash \in HashStrings, password \in Passwords :
        /\ tok = EmptyString
        /\ res' = [NoRes EXCEPT !.op = "CheckPasswordHash", !.hash = hash,
                                !.password = password,
                                !.err = CheckPasswordHash(hash, password)]
        /\ UNCHANGED <<now, tok, issued, rejectedExpired>>
        /\ UNCHANGED hvars

Next ==
    \/ Tick
    \/ MakeJWTCall
    \/ PresentToken
    \/ DiscardToken
    \/ ValidateJWTCall
    \/ HashPasswordCall
    \/ CheckPasswordHashCall

Spec == Init /\ [][Next]_vars

\* ---------------------------------------------------------------- handlers
\* net/http status codes the handlers answer with
StatusOK == 200
StatusCreated == 201
StatusBadRequest == 400
StatusUnauthorized == 401
StatusForbidden == 403
StatusMethodNotAllowed == 405
StatusInternalServerError == 500

\* values of PLATFORM
Platforms == {"dev", "prod"}
\* email addresses of requests; "" is a missing email field
Emails == {"a@example.com"}

\* requests: a POST with a JSON body holding email and password (either may be
\* empty), a POST whose body is not JSON, and a request of another method
Requests ==
    {[method |-> "POST", jsonOk |-> TRUE, email |-> e, password |-> p] :
        e \in Emails \cup {""}, p \in Passwords}
    \cup {[method |-> "POST", jsonOk |-> FALSE, email |-> "", password |-> EmptyString],
          [method |-> "GET", jsonOk |-> TRUE, email |-> "", password |-> EmptyString]}

\* respondWithError(w, code, message): no Content-Type is set
respondWithError(code, message) ==
    [status |-> code, ctype |-> "", body |-> <<"error", message>>]

\* respondWithJSON(w, code, payload)
respondWithJSON(code, payload) ==
    [status |-> code, ctype |-> "application/json", body |-> payload]

\* the row of table users with the given email: SELECT ... WHERE email = $1
UserRows(table, email) == {u \in table : u.email = email}

\* createUserHandler; salt is the salt bcrypt draws, dbOk whether the INSERT
\* reaches the database.  The INSERT fails on an email that has a row (the
\* schema is not part of the sources; email is taken to be unique).  The
\* row's id and timestamps are left out.
createUserHandler(req, salt, dbOk, table) ==
    IF req.method # "POST"
    THEN [resp |-> respondWithError(StatusMethodNotAllowed, "Method not allowed"),
          users |-> table]
    ELSE IF ~req.jsonOk \/ req.email = "" \/ req.password = EmptyString
    THEN [resp |-> respondWithError(StatusBadRequest, "Invalid JSON or missing fields"),
          users |-> table]
    ELSE LET hashed == HashPassword(req.password, salt)
         IN  IF hashed.err # ErrNil
             THEN [resp |-> respondWithError(StatusInternalServerError,
                                             "Failed to hash password"),
                   users |-> table]
             ELSE IF ~dbOk \/ UserRows(table, req.email) # {}
             THEN [resp |-> respondWithError(StatusInternalServerError,
                                             "Failed to create user"),
                   users |-> table]
             ELSE [resp |-> respondWithJSON(StatusCreated, <<"user", req.email>>),
                   users |-> table \cup {[email |-> req.email,
                                          hashed_password |-> hashed.str]}]

\* faulty variant: an unknown email is answered 404 "User not found"
loginHandlerRevealsNoUser(req, dbOk, table) ==
    IF req.method # "POST"
    THEN respondWithError(StatusMethodNotAllowed, "Method not allowed")
    ELSE IF ~req.jsonOk \/ req.email = "" \/ req.password = EmptyString
    THEN respondWithError(StatusBadRequest, "Invalid JSON or missing fields")
    ELSE IF ~dbOk
    THEN respondWithError(StatusInternalServerError, "Failed to retrieve user")
    ELSE IF UserRows(table, req.email) = {}
    THEN respondWithError(404, "User not found")
    ELSE LET user == CHOOSE u \in UserRows(table, req.email) : TRUE
         IN  IF CheckPasswordHash(user.hashed_password, req.password) # ErrNil
             THEN respondWithError(StatusUnauthorized, "Incorrect email or password")
             ELSE respondWithJSON(StatusOK, <<"user", user.email>>)

\* loginHandler; dbOk tells whether the SELECT reaches the database
loginHandler(req, dbOk, table) ==
    IF req.method # "POST"
    THEN respondWithError(StatusMethodNotAllowed, "Method not allowed")
    ELSE IF ~req.jsonOk \/ req.email = "" \/ req.password = EmptyString
    THEN respondWithError(StatusBadRequest, "Invalid JSON or missing fields")
    ELSE IF ~dbOk
    THEN respondWithError(StatusInternalServerError, "Failed to retrieve user")
    ELSE IF UserRows(table, req.email) = {}
    THEN respondWithError(StatusUnauthorized, "Incorrect email or password")
    ELSE LET user == CHOOSE u \in UserRows(table, req.email) : TRUE
         IN  IF CheckPasswordHash(user.hashed_password, req.password) # ErrNil
             THEN respondWithError(StatusUnauthorized, "Incorrect email or password")
             ELSE respondWithJSON(StatusOK, <<"user", user.email>>)

\* resetUsersHandler; dbOk tells whether the DELETE reaches the database
resetUsersHandler(req, dbOk, table) ==
    IF req.method # "POST"
    THEN [resp |-> respondWithError(StatusMethodNotAllowed, "Method not allowed"),
          users |-> table]
    ELSE IF platform # "dev"
    THEN [resp |-> respondWithError(StatusForbidden, "Forbidden"), users |-> table]
    ELSE IF ~dbOk
    THEN [resp |-> respondWithError(StatusInternalServerError, "Failed to reset users"),
          users |-> table]
    ELSE [resp |-> respondWithJSON(StatusOK, <<"status", "All users deleted">>),
          users |-> {}]

\* the request and the response of one exchange
Exchange(handler, req, r) ==
    [handler |-> handler, method |-> req.method, jsonOk |-> req.jsonOk,
     email |-> req.email, password |-> req.password,
     status |-> r.status, ctype |-> r.ctype, body |-> r.body]

\* the server starts with PLATFORM set either way
HandlerInit ==
    /\ now = 0
    /\ tok = EmptyString
    /\ issued = NotIssued
    /\ rejectedExpired = FALSE
    /\ res = NoRes
    /\ platform \in Platforms
    /\ HandlerStart

\* POST /api/users
CreateUserRequest ==
    \E req \in Requests, salt \in Salts, dbOk \in BOOLEAN :
        LET r == createUserHandler(req, salt, dbOk, users)
        IN  /\ users' = r.users
            /\ resp' = Exchange("createUser", req, r.resp)
            /\ registered' =
                   IF r.resp.status = StatusCreated
                   THEN registered \cup {[email |-> req.email, password |-> req.password,
                                          hash |-> HashPassword(req.password, salt).str]}
                   ELSE registered
            /\ UNCHANGED <<platform, failedLogins>>
            /\ UNCHANGED <<now, tok, issued, rejectedExpired, res>>

\* which authentication check a well-formed login fails on the present table
FailedCheck(req) ==
    IF UserRows(users, req.email) = {}
    THEN "no user record"
    ELSE IF \A u \in UserRows(users, req.email) :
                CheckPasswordHash(u.hashed_password, req.password) # ErrNil
         THEN "wrong password"
         ELSE "none"

\* POST /api/login
LoginRequest ==
    \E req \in Requests, dbOk \in BOOLEAN :
        LET r == loginHandler(req, dbOk, users)
            wellFormed == /\ req.method = "POST" /\ req.jsonOk
                          /\ req.email # "" /\ req.password # EmptyString
        IN  /\ resp' = Exchange("login", req, r)
            /\ failedLogins' =
                   IF wellFormed /\ dbOk /\ FailedCheck(req) # "none"
                   THEN failedLogins \cup {[check |-> FailedCheck(req), status |-> r.status,
                                            ctype |-> r.ctype, body |-> r.body]}
                   ELSE failedLogins
            /\ UNCHANGED <<platform, users, registered>>
            /\ UNCHANGED <<now, tok, issued, rejectedExpired, res>>

\* POST /admin/reset
ResetUsersRequest ==
    \E req \in Requests, dbOk \in BOOLEAN :
        LET r == resetUsersHandler(req, dbOk, users)
        IN  /\ users' = r.users
            /\ resp' = Exchange("resetUsers", req, r.resp)
            /\ registered' = IF r.resp.status = StatusOK THEN {} ELSE registered
            /\ UNCHANGED <<platform, failedLogins>>
            /\ UNCHANGED <<now, tok, issued, rejectedExpired, res>>

HandlerNext ==
    \/ CreateUserRequest
    \/ LoginRequest
    \/ ResetUsersRequest

HandlerSpec == HandlerInit /\ [][HandlerNext]_vars

\* ------------------------------------------------------------------ claims
\* the last call was ValidateJWT, on the token the client still holds
Validated == res.op = "ValidateJWT" /\ Len(tok) = 3

\* violations of ValidateJWT's four checks by the held token, for the secret
\* and the instant of the last ValidateJWT call
NonHMAC == tok[1].alg \notin {"HS256", "HS384", "HS512"}
SignatureMismatch == tok[3] # [key |-> HmacKey(res.secret), hdr |-> tok[1], clm |-> tok[2]]
Expired == res.at >= tok[2].exp
BadSubject == UUIDParse(tok[2].sub).err # ErrNil

\* C1: a token minted by MakeJWT(U, secret, ttl) with ttl > 0, validated with
\* the same secret at any time strictly before issue time + ttl, yields U and
\* no error.
C1_RoundTrip ==
    (/\ Validated
     /\ issued.made
     /\ issued.ttl > 0
     /\ res.secret = issued.secret
     /\ res.at < issued.t1 + issued.ttl)
    => (res.err = ErrNil /\ res.id = issued.userID)

\* C2: ValidateJWT reports the earliest violated check, in the order
\* algorithm, signature, expiry, subject, and succeeds only when none is
\* violated.
C2_Precedence ==
    Validated =>
        res.err = IF NonHMAC THEN ErrUnexpectedSigningMethod
                  ELSE IF SignatureMismatch THEN ErrTokenSignatureInvalid
                  ELSE IF Expired THEN ErrTokenExpired
                  ELSE IF BadSubject THEN ErrInvalidUserID
                  ELSE ErrNil

\* C2 witness: tokens violating two checks at once have been validated, each
\* reported by its earlier check (here: expired and wrongly signed)
C2_Witness ==
    /\ Validated
    /\ ~NonHMAC /\ SignatureMismatch /\ Expired /\ BadSubject
    /\ res.err = ErrTokenSignatureInvalid

\* C3: a token whose method is not HMAC is never accepted: ValidateJWT returns
\* the unexpected-signing-method error and the nil UUID, and the secret never
\* reaches signature verification.
C3_NonHMACRejected ==
    (Validated /\ NonHMAC) =>
        /\ res.err = ErrUnexpectedSigningMethod
        /\ res.id = NilUUID
        /\ ~res.keyUsed

\* C3 witness: a non-HMAC token, unexpired, with a parsable subject and signature
\* bytes that are the HMAC under the validating secret, has been rejected
C3_Witness ==
    /\ Validated
    /\ NonHMAC /\ ~SignatureMismatch /\ ~Expired /\ ~BadSubject
    /\ res.err = ErrUnexpectedSigningMethod

C5_Expiry ==
    Validated =>
        /\ (~NonHMAC /\ ~SignatureMismatch) =>
              /\ (res.err = ErrNil => res.at < tok[2].exp)
              /\ (res.at >= tok[2].exp => res.err = ErrTokenExpired)
        /\ (res.err = ErrNil => ~rejectedExpired)

\* C5 witness: a correctly signed token has been rejected at the very instant
\* of its expiry claim
C5_Witness ==
    /\ Validated
    /\ ~NonHMAC /\ ~SignatureMismatch
    /\ res.at = tok[2].exp
    /\ res.err = ErrTokenExpired
    /\ rejectedExpired

\* C6: MakeJWT with a zero or negative ttl returns a non-empty token and no
\* error, and every ValidateJWT call on it with the same secret, at issuance
\* or later, fails with the expired error.
C6_NonPositiveTTL ==
    (issued.made /\ issued.ttl <= 0) =>
        /\ tok # EmptyString
        /\ (res.op = "MakeJWT" => (res.err = ErrNil /\ res.str # EmptyString))
        /\ ((Validated /\ res.secret = issued.secret) => res.err = ErrTokenExpired)

\* C6 witness: a token minted with ttl 0 has been validated with the same
\* secret at the instant of issuance, off a whole second, and rejected as expired
C6_Witness ==
    /\ Validated
    /\ issued.made
    /\ issued.ttl = 0
    /\ res.secret = issued.secret
    /\ res.at = issued.t1
    /\ res.at % TicksPerSecond # 0
    /\ res.err = ErrTokenExpired

\* C7: every token MakeJWT returns carries issuer "chirpy", issued-at equal to
\* the time of the call (at the one-second resolution of the claim), expiry
\* equal to exactly issued-at + ttl, and subject the string form of U.
C7_Claims ==
    (res.op = "MakeJWT" /\ Len(tok) = 3) =>
        /\ tok[2].iss = "chirpy"
        /\ tok[2].iat = res.at - (res.at % TicksPerSecond)
        /\ tok[2].exp = tok[2].iat + issued.ttl
        /\ tok[2].sub = UUIDString(issued.userID)

\* C8: HashPassword(S) returns a hash and no error for every S, and the hash
\* verifies against S.
C8_HashThenCheck ==
    res.op = "HashPassword" =>
        /\ res.err = ErrNil
        /\ res.str # EmptyString
        /\ CheckPasswordHash(res.str, res.password) = ErrNil

\* C9: a hash of S1 checked against any S2 # S1 fails with the mismatch error.
C9_OtherPasswordFails ==
    (/\ res.op = "CheckPasswordHash"
     /\ \E S1 \in Passwords, salt \in Salts :
            /\ HashPassword(S1, salt).err = ErrNil
            /\ HashPassword(S1, salt).str = res.hash
            /\ S1 # res.password)
    => res.err = ErrMismatchedHashAndPassword

\* C10: no partial success: HashPassword and MakeJWT return the empty string
\* with every error, ValidateJWT returns the nil UUID with every error, and
\* ValidateJWT returns no error only for a token that passes the algorithm,
\* signature, expiry and subject checks.
C10_NoPartialSuccess ==
    /\ (res.op \in {"HashPassword", "MakeJWT"} /\ res.err # ErrNil) => res.str = EmptyString
    /\ (res.op = "ValidateJWT" /\ res.err # ErrNil) => res.id = NilUUID
    /\ (Validated /\ res.err = ErrNil) =>
           (~NonHMAC /\ ~SignatureMismatch /\ ~Expired /\ ~BadSubject)

\* C10 witness: ValidateJWT has returned an error for a token whose subject
\* parses to a non-nil UUID
C10_Witness ==
    /\ Validated
    /\ res.err = ErrTokenExpired
    /\ ~BadSubject
    /\ UUIDParse(tok[2].sub).id # NilUUID
    /\ res.id = NilUUID

\* C11: well-formed logins that fail an authentication check are all answered
\* alike: a login for an email without a user record and a login for an
\* existing email with a wrong password get the same status, 401, and the
\* same body.
C11_SameAnswer ==
    \A a \in failedLogins, b \in failedLogins :
        /\ a.status = StatusUnauthorized
        /\ a.status = b.status
        /\ a.body = b.body

\* C11 witness: a login for an email without a user record and a login for an
\* existing email with a wrong password have both been answered
C11_Witness ==
    /\ \E a \in failedLogins : a.check = "no user record"
    /\ \E b \in failedLogins : b.check = "wrong password"

\* the last exchange was a well-formed login that reached the database
WellFormedLogin ==
    /\ resp.handler = "login"
    /\ resp.method = "POST" /\ resp.jsonOk
    /\ resp.email # "" /\ resp.password # EmptyString
    /\ resp.status # StatusInternalServerError

\* C12: only the hash HashPassword produced is stored for a registration, and
\* it stays as stored; so while the row is not deleted by the reset handler,
\* a login with the registered email is answered 200 with the registered
\* password and 401 with any other non-empty password.
C12_RegisterThenLogin ==
    /\ \A u \in users :
          /\ u.hashed_password \in HashStrings \ {EmptyString}
          /\ u.hashed_password[1] = "$2a$"
    /\ \A g \in registered :
          /\ [email |-> g.email, hashed_password |-> g.hash] \in users
          /\ (WellFormedLogin /\ resp.email = g.email) =>
                resp.status = IF resp.password = g.password
                              THEN StatusOK
                              ELSE StatusUnauthorized
====
